---- MODULE Spec2Model ----
(***************************************************************************)
(* Janet's Budget App: the BudgetApp controller (script.js, the second     *)
(* BudgetApp class of src/unnamed/part_002), the SupabaseSync client       *)
(* (src/supabase-client.js) and the remote tables (src/supabase-schema.sql)*)
(* as a state machine.                                                     *)
(*                                                                         *)
(* JavaScript values are modelled as follows.                              *)
(*   number n          [t |-> "num", v |-> n]                              *)
(*   string "n"        [t |-> "str", v |-> n]                              *)
(*   absent / NaN      [t |-> "nan", v |-> 0]                              *)
(*   array             a sequence, wrapped by ArrayValue where the code    *)
(*                     depends on the value being an array                 *)
(*   plain object      a function over its keys, wrapped by ObjectValue    *)
(*   dates, instants   naturals; 0 stands for an absent (falsy) field      *)
(***************************************************************************)
EXTENDS Integers, Sequences, FiniteSets, TLC

(* ------------------------------ bounds -------------------------------- *)
MaxClock == 2      \* Date.now() takes the values 1..MaxClock
MaxDate == 2       \* calendar dates 1..MaxDate
MaxAmount == 2     \* amounts 1..MaxAmount
MaxCloud == 2      \* length of a cloud transaction list handed to a merge
MaxOps == 3        \* user operations per behaviour
MaxCycles == 2     \* performCloudSync invocations that can be pending at once

(* ------------------------------ values -------------------------------- *)
Num(n) == [t |-> "num", v |-> n]
Str(n) == [t |-> "str", v |-> n]
NaN == [t |-> "nan", v |-> 0]

ArrayValue(s) == [kind |-> "array", items |-> s]
ObjectValue(f) == [kind |-> "object", items |-> f]

Ids == 1..MaxClock
Dates == 1..MaxDate
Amounts == 1..MaxAmount
BudgetCategories == {"Food"}
CategoryTypes == {"expense", "income"}
NewCategoryNames == {"Pets"}
CloudCategoryNames == {"Travel"}

\* this.settings as loadData / initializeDefaultData / clearAllData build it;
\* the three alert settings are carried as one field
DefaultSettings == [lowBalanceThreshold |-> 100]
\* the default category lists of loadData, one name kept per type
DefaultCategories == [expense |-> {"Food"}, income |-> {"Salary"}]

Range(s) == {s[i] : i \in DOMAIN s}
Keys(s, keyField) == {s[i][keyField] : i \in DOMAIN s}

\* parseFloat(v): a number or a numeric string gives the number, anything
\* else (an object such as {amount, period}) gives NaN
ParseFloat(x) == IF x.t \in {"num", "str"} THEN Num(x.v) ELSE NaN

\* Number.prototype.toString of a stored DECIMAL
AmountToString(x) == Str(x.v)

(* --------------------------- mergeArrayData --------------------------- *)
\* new Date(item.timestamp || item.date || 0)
ItemTime(item) ==
    IF item.timestamp # 0 THEN item.timestamp
    ELSE IF item.date # 0 THEN item.date ELSE 0

\* merged.findIndex(item => item[keyField] === key)
FindIndex(merged, keyField, key) ==
    CHOOSE i \in DOMAIN merged :
        /\ merged[i][keyField] = key
        /\ \A j \in DOMAIN merged : merged[j][keyField] = key => i <= j

RECURSIVE MergeLoop(_, _, _, _, _)
MergeLoop(merged, localKeys, cloudArray, keyField, k) ==
    IF k > Len(cloudArray) THEN merged
    ELSE LET cloudItem == cloudArray[k] IN
         IF cloudItem[keyField] \notin localKeys
         THEN MergeLoop(Append(merged, cloudItem), localKeys, cloudArray, keyField, k + 1)
         ELSE LET localIndex == FindIndex(merged, keyField, cloudItem[keyField])
                  localItem == merged[localIndex]
              IN IF ItemTime(cloudItem) > ItemTime(localItem)
                 THEN MergeLoop([merged EXCEPT ![localIndex] = cloudItem],
                                localKeys, cloudArray, keyField, k + 1)
                 ELSE MergeLoop(merged, localKeys, cloudArray, keyField, k + 1)

\* a mergeArrayData that pushes every cloud record, whatever its key
MergeArrayDataAppendAll(localArray, cloudArray, keyField) ==
    IF localArray.kind # "array" \/ cloudArray.kind # "array"
    THEN [threw |-> TRUE, value |-> << >>]
    ELSE [threw |-> FALSE, value |-> localArray.items \o cloudArray.items]

\* a mergeArrayData that takes the cloud record unless the local one is later
MergeArrayDataCloudWinsTies(localArray, cloudArray, keyField) ==
    IF localArray.kind # "array" \/ cloudArray.kind # "array"
    THEN [threw |-> TRUE, value |-> << >>]
    ELSE [threw |-> FALSE,
          value |-> [i \in DOMAIN localArray.items |->
                        LET l == localArray.items[i]
                            same == {j \in DOMAIN cloudArray.items :
                                        cloudArray.items[j][keyField] = l[keyField]}
                        IN IF same # {} /\ FindIndex(localArray.items, keyField, l[keyField]) = i
                              /\ \E j \in same : ItemTime(cloudArray.items[j]) >= ItemTime(l)
                           THEN cloudArray.items[CHOOSE j \in same : \A m \in same : j >= m]
                           ELSE l]
                    \o SelectSeq(cloudArray.items,
                                 LAMBDA c : c[keyField] \notin Keys(localArray.items, keyField))]

\* a mergeArrayData that keeps the local record on every conflict
MergeArrayDataKeepLocal(localArray, cloudArray, keyField) ==
    IF localArray.kind # "array" \/ cloudArray.kind # "array"
    THEN [threw |-> TRUE, value |-> << >>]
    ELSE [threw |-> FALSE,
          value |-> localArray.items \o
                    SelectSeq(cloudArray.items,
                              LAMBDA c : c[keyField] \notin Keys(localArray.items, keyField))]

\* (not the program) a mergeArrayData that leaves what is not an array alone
MergeArrayDataSkipsObjects(localArray, cloudArray, keyField) ==
    IF localArray.kind # "array" \/ cloudArray.kind # "array"
    THEN [threw |-> FALSE, value |-> localArray.items]
    ELSE [threw |-> FALSE,
          value |-> MergeLoop(localArray.items, Keys(localArray.items, keyField),
                              cloudArray.items, keyField, 1)]

\* mergeArrayData(localArray, cloudArray, keyField): [...localArray] raises a
\* TypeError for a plain object, and so does cloudArray.forEach
MergeArrayData(localArray, cloudArray, keyField) ==
    IF localArray.kind # "array" \/ cloudArray.kind # "array"
    THEN [threw |-> TRUE, value |-> << >>]
    ELSE [threw |-> FALSE,
          value |-> MergeLoop(localArray.items, Keys(localArray.items, keyField),
                              cloudArray.items, keyField, 1)]

(* ---------------------------- mergeSettings ---------------------------- *)
\* settings fields that belong to the device, not to the account
DeviceLocalFields == {"deviceId", "lastLocalSync"}

\* { ...localSettings, ...cloudSettings }, then deviceId and lastLocalSync are
\* assigned from localSettings; JSON.stringify in saveAppSettings leaves out a
\* field whose value is undefined
MergeSettings(localSettings, cloudSettings) ==
    LET fields == ((DOMAIN localSettings) \cup (DOMAIN cloudSettings))
                  \ (DeviceLocalFields \ DOMAIN localSettings)
    IN [f \in fields |->
          IF f \in DeviceLocalFields THEN localSettings[f]
          ELSE IF f \in DOMAIN cloudSettings THEN cloudSettings[f]
          ELSE localSettings[f]]

\* getAppSettings(): the parsed budgetApp_settings entry, {} when there is none
GetAppSettings(store) == IF store.present THEN store.settings ELSE << >>

(* ---------------------------- mergeCloudData --------------------------- *)
\* what saveData writes to localStorage
SavedStore(tx, b, s, c) ==
    [present |-> TRUE, transactions |-> tx, budgets |-> b,
     settings |-> s, categories |-> c]

\* mergeCloudData(cloudData) on the local state loc = [transactions, budgets,
\* settings, categories, store]: the entities are merged in the order
\* transactions, budgets, categories, settings; an exception leaves the
\* assignments made before it and skips saveData.  The result says whether
\* the call threw and whether it reached saveData.
MergeCloudData(loc, cloudData) ==
    LET mt == MergeArrayData(ArrayValue(loc.transactions),
                             ArrayValue(cloudData.transactions), "id")
        mb == MergeArrayData(ObjectValue(loc.budgets),
                             ObjectValue(cloudData.budgets), "category")
        mc == MergeArrayData(ObjectValue(loc.categories),
                             ObjectValue(cloudData.categories), "name")
        tx1 == IF cloudData.hasTransactions /\ ~mt.threw THEN mt.value
               ELSE loc.transactions
        threwTx == cloudData.hasTransactions /\ mt.threw
        threwB == ~threwTx /\ cloudData.hasBudgets /\ mb.threw
        b1 == IF ~threwTx /\ cloudData.hasBudgets /\ ~mb.threw THEN mb.value
              ELSE loc.budgets
        threwC == ~threwTx /\ ~threwB /\ cloudData.hasCategories /\ mc.threw
        c1 == IF ~threwTx /\ ~threwB /\ cloudData.hasCategories /\ ~mc.threw
              THEN mc.value ELSE loc.categories
        threw == threwTx \/ threwB \/ threwC
        st1 == IF ~threw /\ cloudData.hasSettings
               THEN [loc.store EXCEPT
                       !.present = TRUE,
                       !.settings = MergeSettings(GetAppSettings(loc.store),
                                                  cloudData.settings)]
               ELSE loc.store
    IN [threw |-> threw,
        saved |-> ~threw,
        transactions |-> tx1,
        budgets |-> b1,
        categories |-> c1,
        settings |-> loc.settings,
        store |-> IF threw THEN st1
                  ELSE SavedStore(tx1, b1, loc.settings, c1)]

(* ------------------------------- state -------------------------------- *)
VARIABLES
    transactions,      \* this.transactions: sequence of transaction records
    budgets,           \* this.budgets: category -> {amount, period}
    settings,          \* this.settings
    categories,        \* this.categories: [expense, income], each a set of names
    store,             \* localStorage: the four budgetApp_ entries
    clock,             \* Date.now()
    ops,               \* user operations performed so far
    phase,             \* "boot" until initializeSupabaseSync has run, "initsync"
                       \* while it awaits the initial sync, then "ready"
    clientApi,         \* the operation names the installed SupabaseSync answers to
    cloudSyncEnabled,  \* this.cloudSyncEnabled
    lastCloudSync,     \* this.lastCloudSync: 0 for null, else the time it was set
    isOnline,          \* SupabaseSync.isOnline
    syncInProgress,    \* SupabaseSync.syncInProgress
    remote,            \* the user's rows in the budget_ tables
    cycles,            \* the pending performCloudSync calls
    force,             \* the pending forceSync call
    lastCycle,         \* the performCloudSync call that returned last
    mrg,               \* the last direct mergeCloudData call: inputs and outcome
    pend,              \* transaction ids added / deleted while a sync awaited
    session,           \* sessionStorage: the four budgetApp_ entries
    faults,            \* what the browser's storage refuses: writes, and reading an entry
    saveStatus,        \* what saveData reported in the user's last operation,
                       \* "none" when that operation did not call it
    exported,          \* the backup file exportData produced
    imp,               \* the last importData call: file, state before, outcome
    clientCall,        \* the downloadFromCloud / uploadToCloud call that returned
                       \* last: what it returned, the rows it added to budget_sync_log
    second             \* the application in a second browser: what its Force
                       \* Sync found on the server and left in its transactions

vars == <<transactions, budgets, settings, categories, store, clock, ops, phase,
          clientApi, cloudSyncEnabled, lastCloudSync, isOnline, syncInProgress,
          remote, cycles, force, lastCycle, mrg, pend,
          session, faults, saveStatus, exported, imp, clientCall, second>>

localVars == <<transactions, budgets, settings, categories, store>>
clientVars == <<isOnline, syncInProgress, remote>>
taskVars == <<cycles, force, lastCycle, lastCloudSync>>
ioVars == <<session, faults, saveStatus, exported, imp, second>>

Transaction(id, amount, date) ==
    [id |-> id, amount |-> Num(amount), date |-> date, timestamp |-> 0]

\* this.budgets[category] = { amount, period }
Budget(amount) == [t |-> "obj", v |-> amount, period |-> "monthly"]

NoMerge == [called |-> FALSE]

\* the transaction ids the user added and deleted while a sync was awaiting
NoPending == [added |-> {}, deleted |-> {}]

Local == [transactions |-> transactions, budgets |-> budgets,
          settings |-> settings, categories |-> categories, store |-> store]

EmptyStore == [present |-> FALSE, transactions |-> << >>, budgets |-> << >>,
               settings |-> << >>, categories |-> DefaultCategories]

EmptyRemote == [transactions |-> << >>, budgets |-> << >>,
                settings |-> << >>, categories |-> << >>]

NoData == [transactions |-> << >>, budgets |-> << >>,
           settings |-> << >>, categories |-> DefaultCategories]

IdleCycle == [pc |-> "idle", data |-> NoData, dlFailed |-> FALSE,
              awaitedBy |-> "none"]

IdleForce == [pc |-> "idle", dlFailed |-> FALSE, report |-> "none", retry |-> FALSE]

\* localStorage and sessionStorage take every write and give every entry back
NoFaults == [write |-> "none", read |-> "none"]

NoExport == [made |-> FALSE]

NoImport == [called |-> FALSE]

\* the second browser has not used Force Sync
NoSecond == [forced |-> FALSE]

\* no call of the client has returned yet
NoCall == [operation |-> "none"]

NoCycle == [seen |-> FALSE, result |-> FALSE, dlFailed |-> FALSE,
            uploaded |-> FALSE, fault |-> "none", data |-> NoData]

\* the state the constructor leaves: loadData() has run on an empty
\* localStorage and initializeSupabaseSync() has not run yet
InitLocal ==
    /\ transactions = << >>
    /\ budgets = << >>
    /\ settings = DefaultSettings
    /\ categories = DefaultCategories
    /\ store = EmptyStore
    /\ clock = 1
    /\ ops = 0
    /\ cloudSyncEnabled = FALSE
    /\ lastCloudSync = 0
    /\ isOnline \in BOOLEAN
    /\ syncInProgress = FALSE
    /\ remote = EmptyRemote
    /\ cycles = [c \in 1..MaxCycles |-> IdleCycle]
    /\ force = IdleForce
    /\ lastCycle = NoCycle
    /\ mrg = NoMerge
    /\ pend = NoPending
    /\ session = EmptyStore
    /\ faults = NoFaults
    /\ saveStatus = "none"
    /\ exported = NoExport
    /\ clientCall = NoCall
    /\ second = NoSecond
    /\ imp = NoImport

\* part_002 calls supabaseSync.downloadData() and uploadData(); the class in
\* supabase-client.js names these operations downloadFromCloud() and
\* uploadToCloud().  "asWritten": the call finds no such method and raises a
\* TypeError.  "asCalled": the client answers to the names the app calls.
Init ==
    /\ InitLocal
    /\ phase = "boot"
    /\ clientApi \in {"asWritten", "asCalled"}

(* ------------------------ scheduling of the tasks ---------------------- *)
\* a call whose await has already been resolved continues before the next
\* event (user input, network answer, timer) is handled
MicrotaskPending ==
    \/ \E c \in 1..MaxCycles : cycles[c].pc \in {"downloadNull", "uploadFalse"}
    \/ force.pc = "downloadNull"

FreeSlots(cy) == {c \in 1..MaxCycles : cy[c].pc = "idle"}
FirstFree(cy) == CHOOSE c \in FreeSlots(cy) : \A d \in FreeSlots(cy) : c <= d

InFlight == {c \in 1..MaxCycles : cycles[c].pc # "idle"}

UserMay ==
    /\ phase = "ready"
    /\ ops < MaxOps
    /\ ~MicrotaskPending
    /\ FreeSlots(cycles) # {}

(* ------------------- the merge step of a sync cycle -------------------- *)
\* downloadData() resolved to null: request failed, offline, or a sync of the
\* client in progress
Null == [null |-> TRUE]

\* the local state loc, nothing merged and nothing saved
NotMerged(loc) ==
    [threw |-> FALSE, saved |-> FALSE, transactions |-> loc.transactions,
     budgets |-> loc.budgets, categories |-> loc.categories,
     settings |-> loc.settings, store |-> loc.store]

\* (not the program) null taken for an empty cloud that replaces the local data
MergeIfDataNullIsEmpty(loc, cloudData) ==
    IF cloudData = Null
    THEN [NotMerged(loc) EXCEPT
            !.transactions = << >>, !.budgets = << >>,
            !.store = SavedStore(<< >>, << >>, loc.settings, loc.categories)]
    ELSE MergeCloudData(loc, cloudData)

\* if (cloudData) { await this.mergeCloudData(cloudData) }: without cloud data
\* the local state is left as it is
MergeIfData(loc, cloudData) ==
    IF cloudData = Null THEN NotMerged(loc) ELSE MergeCloudData(loc, cloudData)

(* ---------------------------- remote tables ---------------------------- *)
\* the UNIQUE constraints of supabase-schema.sql that an upsert's onConflict
\* target can name; budget_settings and budget_categories declare none
UniqueConstraints ==
    {<<"budget_transactions", "user_id,transaction_id">>,
     <<"budget_budgets", "user_id,category">>}

\* INSERT ... ON CONFLICT (cols) is rejected unless cols is a unique key
Upsertable(table, onConflict) == <<table, onConflict>> \in UniqueConstraints

RECURSIVE OrderByDateDesc(_)
OrderByDateDesc(rows) ==
    IF DOMAIN rows = {} THEN << >>
    ELSE LET top == CHOOSE i \in DOMAIN rows :
                        \A j \in DOMAIN rows :
                            \/ rows[i].date > rows[j].date
                            \/ rows[i].date = rows[j].date /\ i <= j
         IN <<[id |-> top, amount |-> AmountToString(rows[top].amount),
               date |-> rows[top].date, timestamp |-> 0]>>
            \o OrderByDateDesc([i \in (DOMAIN rows) \ {top} |-> rows[i]])

\* downloadTransactions(): the user's rows, newest date first, amount as text
DownloadTransactions(rem) == OrderByDateDesc(rem.transactions)

\* downloadBudgets(): { category: amount.toString() }
DownloadBudgets(rem) ==
    [c \in DOMAIN rem.budgets |-> AmountToString(rem.budgets[c].amount)]

\* the cloudData object of a successful downloadFromCloud(); .single() gives
\* no row (PGRST116, ignored) unless the user has exactly one
CloudData(rem) ==
    [hasTransactions |-> TRUE, transactions |-> DownloadTransactions(rem),
     hasBudgets |-> TRUE, budgets |-> DownloadBudgets(rem),
     hasSettings |-> Len(rem.settings) = 1,
     settings |-> IF Len(rem.settings) = 1 THEN rem.settings[1] ELSE << >>,
     hasCategories |-> Len(rem.categories) = 1,
     categories |-> IF Len(rem.categories) = 1 THEN rem.categories[1]
                    ELSE DefaultCategories]

\* logSyncOperation(operation, 'all', n, status): one row of budget_sync_log
LogSyncOperation(operation, status) == <<[operation |-> operation, status |-> status]>>

\* a call the guard (!isOnline || syncInProgress) turned away: uploadToCloud
\* returns false, downloadFromCloud null, before the try block
Refused(operation) ==
    [operation |-> operation,
     returned |-> IF operation = "upload" THEN "false" ELSE "null",
     records |-> << >>]

\* downloadFromCloud() past the guard: the data and a 'success' row, or, when
\* a request fails, null and an 'error' row
DownloadFromCloud(ok) ==
    IF ok
    THEN [operation |-> "download", returned |-> "data",
          records |-> LogSyncOperation("download", "success")]
    ELSE [operation |-> "download", returned |-> "null",
          records |-> LogSyncOperation("download", "error")]

\* uploadToCloud() past the guard: true and a 'success' row, or, when a step
\* fails, false and an 'error' row
UploadReturned(ok) ==
    IF ok
    THEN [operation |-> "upload", returned |-> "true",
          records |-> LogSyncOperation("upload", "success")]
    ELSE [operation |-> "upload", returned |-> "false",
          records |-> LogSyncOperation("upload", "error")]

UploadFaults == {"none", "transactions", "budgets", "settings", "categories"}

\* (not the program) an upload that replaces the user's rows by the batch
UploadTransactionsReplaces(rem, txs, fault) ==
    IF fault = "transactions" \/ \E i \in DOMAIN txs : ParseFloat(txs[i].amount) = NaN
    THEN [ok |-> FALSE, remote |-> rem]
    ELSE [ok |-> TRUE,
          remote |-> [rem EXCEPT !.transactions =
              [id \in Keys(txs, "id") |->
                 LET t == txs[FindIndex(txs, "id", id)]
                 IN [amount |-> ParseFloat(t.amount), date |-> t.date]]]]

\* uploadTransactions(): one upsert of all rows on (user_id, transaction_id);
\* a batch that names a key twice, or a NULL amount, is rejected as a whole
UploadTransactions(rem, txs, fault) ==
    IF Len(txs) = 0 THEN [ok |-> TRUE, remote |-> rem]
    ELSE IF \/ fault = "transactions"
            \/ ~Upsertable("budget_transactions", "user_id,transaction_id")
            \/ Cardinality(Keys(txs, "id")) < Len(txs)
            \/ \E i \in DOMAIN txs : ParseFloat(txs[i].amount) = NaN
    THEN [ok |-> FALSE, remote |-> rem]
    ELSE [ok |-> TRUE,
          remote |-> [rem EXCEPT !.transactions =
              [id \in (DOMAIN rem.transactions) \cup Keys(txs, "id") |->
                 IF id \in Keys(txs, "id")
                 THEN LET t == txs[FindIndex(txs, "id", id)]
                      IN [amount |-> ParseFloat(t.amount), date |-> t.date]
                 ELSE rem.transactions[id]]]]

\* uploadBudgets(): Object.entries(budgets) gives [category, value]; the row's
\* amount is parseFloat(value), and amount is NOT NULL
UploadBudgets(rem, bs, fault) ==
    IF DOMAIN bs = {} THEN [ok |-> TRUE, remote |-> rem]
    ELSE IF \/ fault = "budgets"
            \/ ~Upsertable("budget_budgets", "user_id,category")
            \/ \E c \in DOMAIN bs : ParseFloat(bs[c]) = NaN
    THEN [ok |-> FALSE, remote |-> rem]
    ELSE [ok |-> TRUE,
          remote |-> [rem EXCEPT !.budgets =
              [c \in (DOMAIN rem.budgets) \cup (DOMAIN bs) |->
                 IF c \in DOMAIN bs
                 THEN [amount |-> ParseFloat(bs[c]),
                       period |-> IF c \in DOMAIN rem.budgets
                                  THEN rem.budgets[c].period ELSE "monthly"]
                 ELSE rem.budgets[c]]]]

\* an upsert of the one JSON row of a user, onConflict: 'user_id'
UpsertBlob(rows, blob) == IF Len(rows) = 0 THEN <<blob>> ELSE [rows EXCEPT ![1] = blob]

\* uploadSettings()
UploadSettings(rem, blob, fault) ==
    IF fault = "settings" \/ ~Upsertable("budget_settings", "user_id")
    THEN [ok |-> FALSE, remote |-> rem]
    ELSE [ok |-> TRUE, remote |-> [rem EXCEPT !.settings = UpsertBlob(@, blob)]]

\* uploadCategories()
UploadCategories(rem, blob, fault) ==
    IF fault = "categories" \/ ~Upsertable("budget_categories", "user_id")
    THEN [ok |-> FALSE, remote |-> rem]
    ELSE [ok |-> TRUE, remote |-> [rem EXCEPT !.categories = UpsertBlob(@, blob)]]

\* the try block of uploadToCloud(localData): the four uploads in order, the
\* first rejected request ends it; settings and categories are always objects
UploadToCloud(rem, data, fault) ==
    LET s1 == UploadTransactions(rem, data.transactions, fault)
        s2 == IF s1.ok THEN UploadBudgets(s1.remote, data.budgets, fault) ELSE s1
        s3 == IF s2.ok THEN UploadSettings(s2.remote, data.settings, fault) ELSE s2
        s4 == IF s3.ok THEN UploadCategories(s3.remote, data.categories, fault) ELSE s3
    IN s4

(* --------------------------- performCloudSync -------------------------- *)
\* the data performCloudSync hands to the upload
DataToSync(tx, b, c, st) ==
    [transactions |-> tx, budgets |-> b, categories |-> c,
     settings |-> GetAppSettings(st)]

\* what the last performCloudSync() that returned did: its result, whether its
\* download gave no data, and when it got an answer to its upload, the data it
\* sent and the request that was made to fail
Returned(result, dlFailed) ==
    [seen |-> TRUE, result |-> result, dlFailed |-> dlFailed,
     uploaded |-> FALSE, fault |-> "none", data |-> NoData]

ReturnedUpload(result, dlFailed, fault, data) ==
    [seen |-> TRUE, result |-> result, dlFailed |-> dlFailed,
     uploaded |-> TRUE, fault |-> fault, data |-> data]

\* performCloudSync() up to its first await, called with cloudSyncEnabled =
\* enabled while the pending calls are cy and the client's flag is sip.
\*   not enabled            returns false at once
\*   clientApi "asWritten"  downloadData is not a function: the catch block
\*                          reports 'Cloud sync error' and returns false
\*   client guard refuses   the download resolves to null (pc "downloadNull")
\*   otherwise              the download request is on its way (pc "download")
StartSync(enabled, cy, sip, awaitedBy) ==
    IF ~enabled
    THEN [cycles |-> cy, sip |-> sip, returned |-> TRUE]
    ELSE IF clientApi = "asWritten"
    THEN [cycles |-> cy, sip |-> sip, returned |-> TRUE]
    ELSE LET c == FirstFree(cy) IN
         IF ~isOnline \/ sip
         THEN [cycles |-> [cy EXCEPT ![c] = [pc |-> "downloadNull", data |-> NoData,
                                             dlFailed |-> TRUE, awaitedBy |-> awaitedBy]],
               sip |-> sip, returned |-> FALSE]
         ELSE [cycles |-> [cy EXCEPT ![c] = [pc |-> "download", data |-> NoData,
                                             dlFailed |-> FALSE, awaitedBy |-> awaitedBy]],
               sip |-> TRUE, returned |-> FALSE]

\* (not the program) an upload call that takes the flag before it looks at it
StartUploadTakesFlag(cy, sip, c, data) ==
    IF ~isOnline \/ sip
    THEN [cycles |-> [cy EXCEPT ![c].pc = "uploadFalse"], sip |-> TRUE]
    ELSE [cycles |-> [cy EXCEPT ![c].pc = "upload", ![c].data = data], sip |-> TRUE]

\* the uploadData(dataToSync) call of cycle c: refused by the client guard
\* (pc "uploadFalse") or on its way (pc "upload")
StartUpload(cy, sip, c, data) ==
    IF ~isOnline \/ sip
    THEN [cycles |-> [cy EXCEPT ![c].pc = "uploadFalse"], sip |-> sip]
    ELSE [cycles |-> [cy EXCEPT ![c].pc = "upload", ![c].data = data], sip |-> TRUE]

(* ------------------------------- saveData ------------------------------ *)
\* (not the program) a saveData that gives up when localStorage refuses
WriteStorageNoFallback(write, st, sess, tx, b, s, c) ==
    IF write = "none"
    THEN [store |-> SavedStore(tx, b, s, c), session |-> sess, status |-> "Data saved"]
    ELSE [store |-> st, session |-> sess, status |-> "Save failed"]

\* the storage part of saveData(): the four entries go to localStorage; when
\* its setItem throws they go to sessionStorage ('Data saved (fallback)');
\* when that throws as well nothing is written ('Save failed').  A storage
\* that refuses a write refuses the first one.
WriteStorage(write, st, sess, tx, b, s, c) ==
    IF write = "none"
    THEN [store |-> SavedStore(tx, b, s, c), session |-> sess, status |-> "Data saved"]
    ELSE IF write = "local"
    THEN [store |-> st, session |-> SavedStore(tx, b, s, c),
          status |-> "Data saved (fallback)"]
    ELSE [store |-> st, session |-> sess, status |-> "Save failed"]

\* saveData(): the four entries are written and 'Data saved' is shown; then,
\* with cloud sync enabled, performCloudSync() is called and not awaited.
\* Entries that were written can be read again.
SaveData(tx, b, s, c) ==
    LET w == WriteStorage(faults.write, store, session, tx, b, s, c)
        sync == cloudSyncEnabled /\ w.status = "Data saved"
        r == StartSync(sync, cycles, syncInProgress, "none")
    IN
    /\ store' = w.store
    /\ session' = w.session
    /\ saveStatus' = w.status
    /\ faults' = IF w.status = "Data saved" THEN [faults EXCEPT !.read = "none"]
                 ELSE faults
    /\ cycles' = r.cycles
    /\ syncInProgress' = r.sip
    /\ lastCycle' = IF r.returned /\ sync
                    THEN Returned(FALSE, TRUE) ELSE lastCycle

(* --------------------------- user operations --------------------------- *)
\* a cycle, or forceSync, is between its start and its return
Syncing == InFlight # {} \/ force.pc # "idle"

\* the ids added and deleted since the application last was not syncing
Pending == IF Syncing THEN pend ELSE NoPending

\* if (!amount || ...) { showAlert(...); return; }: the form is refused and
\* nothing is stored or saved
EntryRejected ==
    /\ ops' = ops + 1
    /\ mrg' = NoMerge
    /\ imp' = NoImport
    /\ saveStatus' = "none"
    /\ pend' = Pending
    /\ UNCHANGED <<localVars, clock, phase, clientApi, cloudSyncEnabled,
                   lastCloudSync, isOnline, syncInProgress, remote, cycles,
                   force, lastCycle, session, faults, exported, clientCall, second>>

\* addTransaction() at time now: category and date are filled in, the form is
\* refused when !amount, else the id is Date.now().toString()
AddTransaction(amount, date, now) ==
    /\ UserMay
    /\ now >= clock
    /\ IF amount = 0
       THEN EntryRejected
       ELSE /\ clock' = now
            /\ transactions' = Append(transactions, Transaction(now, amount, date))
            /\ SaveData(transactions', budgets, settings, categories)
            /\ ops' = ops + 1
            /\ mrg' = NoMerge
            /\ imp' = NoImport
            /\ UNCHANGED <<exported, clientCall, second>>
            /\ pend' = IF Syncing
                       THEN [added |-> pend.added \cup {now},
                             deleted |-> pend.deleted \ {now}]
                       ELSE NoPending
            /\ UNCHANGED <<budgets, settings, categories, phase, clientApi,
                           cloudSyncEnabled, lastCloudSync, isOnline, remote, force>>

\* deleteTransaction(id), confirmed
DeleteTransaction(id) ==
    /\ UserMay
    /\ id \in Keys(transactions, "id")
    /\ transactions' = SelectSeq(transactions, LAMBDA t : t.id # id)
    /\ SaveData(transactions', budgets, settings, categories)
    /\ ops' = ops + 1
    /\ mrg' = NoMerge
    /\ imp' = NoImport
    /\ UNCHANGED <<exported, clientCall, second>>
    /\ pend' = IF Syncing
               THEN [added |-> pend.added \ {id}, deleted |-> pend.deleted \cup {id}]
               ELSE NoPending
    /\ UNCHANGED <<budgets, settings, categories, clock, phase, clientApi,
                   cloudSyncEnabled, lastCloudSync, isOnline, remote, force>>

\* addBudget()
AddBudget(category, amount) ==
    /\ UserMay
    /\ IF amount = 0
       THEN EntryRejected
       ELSE /\ budgets' = [c \in (DOMAIN budgets) \cup {category} |->
                             IF c = category THEN Budget(amount) ELSE budgets[c]]
            /\ SaveData(transactions, budgets', settings, categories)
            /\ ops' = ops + 1
            /\ mrg' = NoMerge
            /\ imp' = NoImport
            /\ UNCHANGED <<exported, clientCall, second>>
            /\ pend' = Pending
            /\ UNCHANGED <<transactions, settings, categories, clock, phase,
                           clientApi, cloudSyncEnabled, lastCloudSync, isOnline,
                           remote, force>>

\* removeBudget(category), confirmed
RemoveBudget(category) ==
    /\ UserMay
    /\ category \in DOMAIN budgets
    /\ budgets' = [c \in (DOMAIN budgets) \ {category} |-> budgets[c]]
    /\ SaveData(transactions, budgets', settings, categories)
    /\ ops' = ops + 1
    /\ mrg' = NoMerge
    /\ imp' = NoImport
    /\ UNCHANGED <<exported, clientCall, second>>
    /\ pend' = Pending
    /\ UNCHANGED <<transactions, settings, categories, clock, phase, clientApi,
                   cloudSyncEnabled, lastCloudSync, isOnline, remote, force>>

\* saveNewCategory(): a non-empty name the type does not have yet
SaveNewCategory(type, name) ==
    /\ UserMay
    /\ name \notin categories[type]
    /\ categories' = [categories EXCEPT ![type] = @ \cup {name}]
    /\ SaveData(transactions, budgets, settings, categories')
    /\ ops' = ops + 1
    /\ mrg' = NoMerge
    /\ imp' = NoImport
    /\ UNCHANGED <<exported, clientCall, second>>
    /\ pend' = Pending
    /\ UNCHANGED <<transactions, budgets, settings, clock, phase, clientApi,
                   cloudSyncEnabled, lastCloudSync, isOnline, remote, force>>

\* clearAllData(), confirmed: categories are kept
ClearAllData ==
    /\ UserMay
    /\ transactions' = << >>
    /\ budgets' = << >>
    /\ settings' = DefaultSettings
    /\ SaveData(transactions', budgets', settings', categories)
    /\ ops' = ops + 1
    /\ mrg' = NoMerge
    /\ imp' = NoImport
    /\ UNCHANGED <<exported, clientCall, second>>
    /\ pend' = IF Syncing
               THEN [added |-> {},
                     deleted |-> pend.deleted \cup Keys(transactions, "id")]
               ELSE NoPending
    /\ UNCHANGED <<categories, clock, phase, clientApi,
                   cloudSyncEnabled, lastCloudSync, isOnline, remote, force>>

\* the window's online / offline event
NetworkChange ==
    /\ ~MicrotaskPending
    /\ isOnline' = ~isOnline
    /\ UNCHANGED <<localVars, clock, ops, phase, clientApi, cloudSyncEnabled,
                   syncInProgress, remote, taskVars, mrg, pend>>
    /\ UNCHANGED ioVars
    /\ UNCHANGED clientCall

(* ----------------------- the steps of a sync cycle --------------------- *)
\* cycle c returns: the caller that awaits it goes on.  initializeSupabaseSync
\* ends and the UI is set up; forceSync refreshes the UI and reports
\* 'Sync completed' whatever the cycle returned
FinishCycle(cy, c) ==
    [cycles |-> [cy EXCEPT ![c] = IdleCycle],
     phase |-> IF cy[c].awaitedBy = "init" THEN "ready" ELSE phase,
     force |-> IF cy[c].awaitedBy = "force"
               THEN [force EXCEPT !.pc = "idle", !.report = "Sync completed"]
               ELSE force]

\* initializeSupabaseSync(): when the client initialises, cloud sync is enabled
\* and the initial performCloudSync() is awaited
InitializeSupabaseSync(initialized) ==
    /\ phase = "boot"
    /\ IF initialized
       THEN LET r == StartSync(TRUE, cycles, syncInProgress, "init") IN
            /\ cloudSyncEnabled' = TRUE
            /\ cycles' = r.cycles
            /\ syncInProgress' = r.sip
            /\ phase' = IF r.returned THEN "ready" ELSE "initsync"
            /\ lastCycle' = IF r.returned THEN Returned(FALSE, TRUE) ELSE lastCycle
       ELSE /\ phase' = "ready"
            /\ UNCHANGED <<cloudSyncEnabled, cycles, syncInProgress, lastCycle>>
    /\ UNCHANGED <<localVars, clock, ops, clientApi, lastCloudSync, isOnline,
                   remote, force, mrg, pend>>
    /\ UNCHANGED ioVars
    /\ UNCHANGED clientCall

\* the download of cycle c is answered; the finally block releases the flag.
\* With data: mergeCloudData, and when it returns, its saveData has started the
\* next cycle before this one calls the upload.  Without (request failed):
\* 'No cloud data found', the upload is called.
DownloadDone(c, ok) ==
    /\ cycles[c].pc = "download"
    /\ ~MicrotaskPending
    /\ LET m == MergeIfData(Local, IF ok THEN CloudData(remote) ELSE Null) IN
          /\ transactions' = m.transactions
          /\ budgets' = m.budgets
          /\ categories' = m.categories
          /\ store' = m.store
          /\ IF m.threw
             THEN LET f == FinishCycle(cycles, c) IN
                  /\ cycles' = f.cycles
                  /\ phase' = f.phase
                  /\ force' = f.force
                  /\ syncInProgress' = FALSE
                  /\ lastCycle' = Returned(FALSE, FALSE)
             ELSE IF m.saved
             THEN LET r == StartSync(TRUE, cycles, FALSE, "none")
                      u == StartUpload(r.cycles, r.sip, c,
                               DataToSync(m.transactions, m.budgets,
                                          m.categories, m.store))
                  IN /\ FreeSlots(cycles) # {}
                     /\ cycles' = u.cycles
                     /\ syncInProgress' = u.sip
                     /\ UNCHANGED <<phase, force, lastCycle>>
             ELSE LET u == StartUpload([cycles EXCEPT ![c].dlFailed = TRUE], FALSE, c,
                               DataToSync(m.transactions, m.budgets,
                                          m.categories, m.store))
                  IN /\ cycles' = u.cycles
                     /\ syncInProgress' = u.sip
                     /\ UNCHANGED <<phase, force, lastCycle>>
    /\ UNCHANGED <<settings, clock, ops, clientApi, cloudSyncEnabled,
                   lastCloudSync, isOnline, remote, mrg, pend>>
    /\ UNCHANGED ioVars
    /\ clientCall' = DownloadFromCloud(ok)

\* the download of cycle c was refused by the client guard: cloudData is null
\* and the upload is called
AfterDownloadRefused(c) ==
    /\ cycles[c].pc = "downloadNull"
    /\ LET u == StartUpload(cycles, syncInProgress, c,
                    DataToSync(transactions, budgets, categories, store))
       IN /\ cycles' = u.cycles
          /\ syncInProgress' = u.sip
    /\ UNCHANGED <<localVars, clock, ops, phase, clientApi, cloudSyncEnabled,
                   lastCloudSync, isOnline, remote, force,
                   lastCycle, mrg, pend>>
    /\ UNCHANGED ioVars
    /\ clientCall' = Refused("download")

\* the upload of cycle c was refused by the client guard: 'Cloud sync failed'
AfterUploadRefused(c) ==
    /\ cycles[c].pc = "uploadFalse"
    /\ LET f == FinishCycle(cycles, c) IN
          /\ cycles' = f.cycles
          /\ phase' = f.phase
          /\ force' = f.force
    /\ lastCycle' = Returned(FALSE, cycles[c].dlFailed)
    /\ UNCHANGED <<localVars, clock, ops, clientApi, cloudSyncEnabled,
                   lastCloudSync, isOnline, syncInProgress, remote, mrg, pend>>
    /\ UNCHANGED ioVars
    /\ clientCall' = Refused("upload")

\* the upload of cycle c ends: the rows that were accepted are in the tables,
\* the flag is released, performCloudSync returns the outcome
UploadDone(c, fault) ==
    /\ cycles[c].pc = "upload"
    /\ ~MicrotaskPending
    /\ LET u == UploadToCloud(remote, cycles[c].data, fault)
           f == FinishCycle(cycles, c)
       IN /\ remote' = u.remote
          /\ lastCloudSync' = IF u.ok THEN clock ELSE lastCloudSync
          /\ cycles' = f.cycles
          /\ phase' = f.phase
          /\ force' = f.force
          /\ lastCycle' = ReturnedUpload(u.ok, cycles[c].dlFailed, fault, cycles[c].data)
    /\ syncInProgress' = FALSE
    /\ UNCHANGED <<localVars, clock, ops, clientApi, cloudSyncEnabled, isOnline, mrg, pend>>
    /\ UNCHANGED ioVars
    /\ clientCall' = UploadReturned(UploadToCloud(remote, cycles[c].data, fault).ok)

(* ------------------------------ forceSync ------------------------------ *)
\* initializeDefaultData()
DefaultData ==
    [transactions |-> << >>, budgets |-> << >>,
     settings |-> DefaultSettings, categories |-> DefaultCategories]

\* the order in which loadData reads the entries
LoadOrder == <<"transactions", "budgets", "settings", "categories">>
LoadIndex(e) == CHOOSE i \in DOMAIN LoadOrder : LoadOrder[i] = e

\* (not the program) a loadData that falls back to the defaults whenever an
\* entry cannot be read
LoadDataDefaults(mem, st, read, sess) ==
    IF read # "none" THEN DefaultData
    ELSE IF st.present
    THEN [transactions |-> st.transactions, budgets |-> st.budgets,
          settings |-> st.settings, categories |-> st.categories]
    ELSE DefaultData

\* loadData() on the collections mem: each entry of localStorage is read and
\* parsed in turn, the default taken where there is none.  When reading or
\* parsing entry `read` throws, the entries before it have been assigned;
\* the catch block then takes the transactions from sessionStorage when it
\* has them and assigns nothing else, and calls initializeDefaultData()
\* when it has not.
LoadData(mem, st, read, sess) ==
    IF read = "none"
    THEN IF st.present
         THEN [transactions |-> st.transactions, budgets |-> st.budgets,
               settings |-> st.settings, categories |-> st.categories]
         ELSE DefaultData
    ELSE IF ~sess.present THEN DefaultData
    ELSE [e \in {"transactions", "budgets", "settings", "categories"} |->
            IF e = "transactions" THEN sess.transactions
            ELSE IF LoadIndex(e) < LoadIndex(read) THEN st[e]
            ELSE mem[e]]

\* the sync is tried again: the last cycle's upload failed and the data to
\* send is what that upload was given
Retry ==
    /\ lastCycle.uploaded
    /\ ~lastCycle.result
    /\ lastCycle.data = DataToSync(transactions, budgets, categories, store)

\* forceSync() up to its first await.  Cloud sync enabled: the download is
\* called ("asWritten": TypeError, caught, 'Sync failed').  Otherwise the data
\* is reloaded from localStorage and 'Sync completed' is reported.
ForceSync ==
    /\ UserMay
    /\ force.pc = "idle"
    /\ ops' = ops + 1
    /\ mrg' = NoMerge
    /\ pend' = Pending
    /\ IF cloudSyncEnabled
       THEN /\ IF clientApi = "asWritten"
               THEN /\ force' = [pc |-> "idle", dlFailed |-> TRUE, report |-> "Sync failed",
                                   retry |-> Retry]
                    /\ UNCHANGED syncInProgress
               ELSE IF ~isOnline \/ syncInProgress
               THEN /\ force' = [pc |-> "downloadNull", dlFailed |-> TRUE, report |-> "none",
                                   retry |-> Retry]
                    /\ UNCHANGED syncInProgress
               ELSE /\ force' = [pc |-> "download", dlFailed |-> FALSE, report |-> "none",
                                   retry |-> Retry]
                    /\ syncInProgress' = TRUE
            /\ UNCHANGED localVars
       ELSE LET d == LoadData(Local, store, faults.read, session) IN
            /\ transactions' = d.transactions
            /\ budgets' = d.budgets
            /\ settings' = d.settings
            /\ categories' = d.categories
            /\ force' = [pc |-> "idle", dlFailed |-> FALSE, report |-> "Sync completed",
                            retry |-> FALSE]
            /\ UNCHANGED <<store, syncInProgress>>
    /\ saveStatus' = "none"
    /\ imp' = NoImport
    /\ UNCHANGED <<clock, phase, clientApi, cloudSyncEnabled, lastCloudSync,
                   isOnline, remote, cycles, lastCycle, session, faults, exported, clientCall, second>>

\* forceSync's download was refused: no merge, performCloudSync() is awaited
ForceAfterRefused ==
    /\ force.pc = "downloadNull"
    /\ FreeSlots(cycles) # {}
    /\ LET r == StartSync(cloudSyncEnabled, cycles, syncInProgress, "force") IN
          /\ cycles' = r.cycles
          /\ syncInProgress' = r.sip
    /\ force' = [force EXCEPT !.pc = "awaitCycle"]
    /\ UNCHANGED <<localVars, clock, ops, phase, clientApi, cloudSyncEnabled,
                   lastCloudSync, isOnline, remote, lastCycle, mrg, pend>>
    /\ UNCHANGED ioVars
    /\ clientCall' = Refused("download")

\* forceSync's download is answered.  With data: mergeCloudData; an exception
\* reaches forceSync's catch block ('Sync failed').  Then, or without data,
\* performCloudSync() is awaited.
ForceDownloadDone(ok) ==
    /\ force.pc = "download"
    /\ ~MicrotaskPending
    /\ FreeSlots(cycles) # {}
    /\ LET m == MergeIfData(Local, IF ok THEN CloudData(remote) ELSE Null) IN
          /\ transactions' = m.transactions
          /\ budgets' = m.budgets
          /\ categories' = m.categories
          /\ store' = m.store
          /\ IF m.threw
             THEN /\ force' = [force EXCEPT !.pc = "idle", !.report = "Sync failed"]
                  /\ syncInProgress' = FALSE
                  /\ UNCHANGED cycles
             ELSE IF m.saved
             THEN LET r1 == StartSync(TRUE, cycles, FALSE, "none")
                      r2 == StartSync(TRUE, r1.cycles, r1.sip, "force")
                  IN /\ FreeSlots(r1.cycles) # {}
                     /\ cycles' = r2.cycles
                     /\ syncInProgress' = r2.sip
                     /\ force' = [force EXCEPT !.pc = "awaitCycle"]
             ELSE LET r == StartSync(TRUE, cycles, FALSE, "force") IN
                  /\ cycles' = r.cycles
                  /\ syncInProgress' = r.sip
                  /\ force' = [force EXCEPT !.pc = "awaitCycle", !.dlFailed = TRUE]
    /\ UNCHANGED <<settings, clock, ops, phase, clientApi, cloudSyncEnabled,
                   lastCloudSync, isOnline, remote, lastCycle, mrg, pend>>
    /\ UNCHANGED ioVars
    /\ clientCall' = DownloadFromCloud(ok)

(* ------------------------- the whole application ----------------------- *)
UserOperation ==
    \/ \E a \in Amounts, d \in Dates, now \in Ids : AddTransaction(a, d, now)
    \/ \E id \in Ids : DeleteTransaction(id)
    \/ \E c \in BudgetCategories, a \in Amounts : AddBudget(c, a)
    \/ \E c \in BudgetCategories : RemoveBudget(c)
    \/ \E t \in CategoryTypes, n \in NewCategoryNames : SaveNewCategory(t, n)
    \/ ClearAllData

SyncStep ==
    \/ \E c \in 1..MaxCycles, ok \in BOOLEAN : DownloadDone(c, ok)
    \/ \E c \in 1..MaxCycles : AfterDownloadRefused(c)
    \/ \E c \in 1..MaxCycles : AfterUploadRefused(c)
    \/ \E c \in 1..MaxCycles, f \in UploadFaults : UploadDone(c, f)

ForceStep ==
    \/ ForceSync
    \/ ForceAfterRefused
    \/ \E ok \in BOOLEAN : ForceDownloadDone(ok)

Next ==
    \/ \E i \in BOOLEAN : InitializeSupabaseSync(i)
    \/ UserOperation
    \/ SyncStep
    \/ ForceStep
    \/ NetworkChange

Spec == Init /\ [][Next]_vars

\* forceSync() after its first await
ForceContinues ==
    \/ ForceAfterRefused
    \/ \E ok \in BOOLEAN : ForceDownloadDone(ok)

\* the application when every request that was sent is answered or times
\* out, and every continuation of an await is run
SpecLive == Init /\ [][Next]_vars /\ WF_vars(SyncStep) /\ WF_vars(ForceContinues)

(* ---------------------------- a second device ------------------------- *)
\* generateDeviceId(): every browser makes its own id and keeps it in its own
\* localStorage
Devices == {"first", "second"}

\* registerDevice(): the budget_users row with the browser's device_id, or a
\* new row when there is none; device_id is UNIQUE, so each device has a user
\* id of its own
RegisterDevice(device) == <<"user", device>>

\* .eq('user_id', userId) on tables whose rows were all written by the first
\* device, with its user id
SelectRows(rem, userId) ==
    IF userId = RegisterDevice("first") THEN rem ELSE EmptyRemote

\* the application after loading in a browser that has no data
FreshLocal ==
    [transactions |-> << >>, budgets |-> << >>, settings |-> DefaultSettings,
     categories |-> DefaultCategories, store |-> EmptyStore]

\* forceSync() in the second browser, online and with no call in progress:
\* "asWritten" the download is a TypeError; else the rows of its own user are
\* downloaded and merged
SecondDeviceForceSync ==
    /\ phase = "ready"
    /\ ~second.forced
    /\ LET m == MergeIfData(FreshLocal,
                    CloudData(SelectRows(remote, RegisterDevice("second"))))
       IN second' = [forced |-> TRUE,
                     uploaded |-> DOMAIN remote.transactions,
                     transactions |-> IF clientApi = "asWritten" THEN << >>
                                      ELSE m.transactions,
                     report |-> IF clientApi = "asWritten" \/ m.threw
                                THEN "Sync failed" ELSE "Sync completed"]
    /\ UNCHANGED <<localVars, clock, ops, phase, clientApi, cloudSyncEnabled,
                   clientVars, taskVars, mrg, pend, session, faults, saveStatus,
                   exported, imp, clientCall>>

NextDevices ==
    \/ Next
    \/ SecondDeviceForceSync

SpecDevices == Init /\ [][NextDevices]_vars

(* ---------------- mergeCloudData called with any cloud data ------------- *)
\* a transaction as a cloud snapshot can carry it: with a date, with or
\* without a timestamp field, or with neither
CloudTransactions ==
    [id : Ids, amount : {Str(MaxAmount)}, date : Dates,
     timestamp : {0, MaxDate}]
    \cup [id : Ids, amount : {Str(a) : a \in Amounts}, date : {0}, timestamp : {0}]

\* cloud transaction lists: at most MaxCloud records, no id twice
CloudLists ==
    {l \in UNION {[1..n -> CloudTransactions] : n \in 0..MaxCloud} :
        \A i, j \in DOMAIN l : l[i].id = l[j].id => i = j}

CloudBudgets == [BudgetCategories -> {Str(MaxAmount)}]

CloudCategories == {[expense |-> CloudCategoryNames, income |-> {}]}

CloudSettings ==
    {[lowBalanceThreshold |-> 50],
     [lowBalanceThreshold |-> 50, deviceId |-> "device_2"]}

AbsentData ==
    [hasTransactions |-> FALSE, transactions |-> << >>,
     hasBudgets |-> FALSE, budgets |-> << >>,
     hasSettings |-> FALSE, settings |-> << >>,
     hasCategories |-> FALSE, categories |-> DefaultCategories]

\* the cloudData arguments: every transaction list on its own, and every
\* combination of the other entities with and without one transaction list
CloudInputs ==
    {[AbsentData EXCEPT !.hasTransactions = TRUE, !.transactions = l] : l \in CloudLists}
    \cup
    {[hasTransactions |-> ht,
      transactions |-> IF ht THEN <<[id |-> 1, amount |-> Str(MaxAmount), date |-> MaxDate,
                                     timestamp |-> 0]>> ELSE << >>,
      hasBudgets |-> hb, budgets |-> IF hb THEN b ELSE << >>,
      hasSettings |-> hs, settings |-> IF hs THEN st ELSE << >>,
      hasCategories |-> hc, categories |-> IF hc THEN c ELSE DefaultCategories] :
        ht \in BOOLEAN, hb \in BOOLEAN, hs \in BOOLEAN, hc \in BOOLEAN,
        b \in CloudBudgets, st \in CloudSettings, c \in CloudCategories}

\* mergeCloudData(cloudData) called on the application's state; an exception
\* goes to the caller
MergeCloudDataCall(cloudData) ==
    /\ UserMay
    /\ ~cloudSyncEnabled
    /\ LET m == MergeCloudData(Local, cloudData) IN
          /\ transactions' = m.transactions
          /\ budgets' = m.budgets
          /\ categories' = m.categories
          /\ store' = m.store
          /\ mrg' = [called |-> TRUE, before |-> Local, cloud |-> cloudData,
                     threw |-> m.threw]
          /\ saveStatus' = IF m.saved THEN "Data saved" ELSE "none"
    /\ pend' = Pending
    /\ ops' = ops + 1
    /\ imp' = NoImport
    /\ UNCHANGED <<settings, clock, phase, clientApi, cloudSyncEnabled,
                   clientVars, taskVars, session, faults, exported, clientCall, second>>

\* the application without cloud sync, and mergeCloudData called on it
InitMerge ==
    /\ InitLocal
    /\ phase = "ready"
    /\ clientApi = "asWritten"
    /\ isOnline

NextMerge ==
    \/ UserOperation
    \/ \E cd \in CloudInputs : MergeCloudDataCall(cd)

SpecMerge == InitMerge /\ [][NextMerge]_vars

(* ------------------------ backup files: JSON values -------------------- *)
\* values of a parsed JSON text besides arrays and objects
JsonNull == [kind |-> "null"]
JsonNumber(n) == [kind |-> "number", num |-> n]
JsonString(n) == [kind |-> "string", str |-> n]
\* a property the object does not have
Undefined == [kind |-> "undefined"]

\* typeof v
TypeOf(v) == IF v.kind \in {"null", "array", "object"} THEN "object" ELSE v.kind

\* v taken as a condition
Truthy(v) ==
    /\ v.kind \notin {"null", "undefined"}
    /\ v.kind = "number" => v.num # 0

\* Array.isArray(v)
IsArray(v) == v.kind = "array"

\* v[k] for a value that is not null
Field(v, k) ==
    IF v.kind = "object" /\ k \in DOMAIN v.items THEN v.items[k] ELSE Undefined

\* JSON.stringify of an amount: NaN is written as null
JsonAmount(a) ==
    IF a.t = "num" THEN JsonNumber(a.v)
    ELSE IF a.t = "str" THEN JsonString(a.v)
    ELSE JsonNull

\* JSON.parse of an amount
ParsedAmount(j) ==
    IF j.kind = "number" THEN Num(j.num)
    ELSE IF j.kind = "string" THEN Str(j.str)
    ELSE j

JsonTransactions(l) ==
    ArrayValue([i \in DOMAIN l |-> [l[i] EXCEPT !.amount = JsonAmount(@)]])

ParsedTransactions(j) ==
    [i \in DOMAIN j.items |-> [j.items[i] EXCEPT !.amount = ParsedAmount(@)]]

JsonBudgets(b) ==
    ObjectValue([c \in DOMAIN b |->
                    [amount |-> JsonNumber(b[c].v), period |-> b[c].period]])

ParsedBudgets(j) ==
    IF j.kind = "object"
    THEN [c \in DOMAIN j.items |->
             [t |-> "obj", v |-> j.items[c].amount.num, period |-> j.items[c].period]]
    ELSE j

\* settings and categories: an object is held as the function over its keys,
\* any other value as it is
JsonObject(o) == IF "kind" \in DOMAIN o THEN o ELSE ObjectValue(o)
ParsedObject(j) == IF j.kind = "object" THEN j.items ELSE j

(* ------------------------------ exportData ----------------------------- *)
\* the four collections of the state loc
Collections(loc) ==
    [transactions |-> loc.transactions, budgets |-> loc.budgets,
     settings |-> loc.settings, categories |-> loc.categories]

\* the text exportData() writes at time now, as the value it parses to
ExportFile(loc, now) ==
    [parses |-> TRUE,
     data |-> ObjectValue(
        [transactions |-> JsonTransactions(loc.transactions),
         budgets |-> JsonBudgets(loc.budgets),
         settings |-> JsonObject(loc.settings),
         categories |-> JsonObject(loc.categories),
         exportDate |-> JsonString(now),
         version |-> JsonString(1)])]

\* exportData(): the backup file is written; the application's state stays
ExportData ==
    /\ phase = "ready"
    /\ ~MicrotaskPending
    /\ ~exported.made
    /\ exported' = [made |-> TRUE, file |-> ExportFile(Local, clock),
                    state |-> Collections(Local)]
    /\ UNCHANGED <<localVars, clock, ops, phase, clientApi, cloudSyncEnabled,
                   clientVars, taskVars, mrg, pend, session, faults, saveStatus, imp, clientCall, second>>

(* ------------------------------ importData ----------------------------- *)
\* validateImportedData(data)
ValidateImportedData(data) ==
    /\ Truthy(data)
    /\ TypeOf(data) = "object"
    /\ IsArray(Field(data, "transactions"))
    /\ \A e \in {"budgets", "settings", "categories"} :
          ~(Truthy(Field(data, e)) /\ TypeOf(Field(data, e)) # "object")

\* (not the program) an import that leaves the categories as they are
ImportedStateKeepsCategories(loc, file, write) ==
    IF ~file.parses \/ ~ValidateImportedData(file.data) \/ write # "none"
    THEN [accepted |-> FALSE, transactions |-> loc.transactions, budgets |-> loc.budgets,
          settings |-> loc.settings, categories |-> loc.categories]
    ELSE [accepted |-> TRUE,
          transactions |-> ParsedTransactions(Field(file.data, "transactions")),
          budgets |-> IF Truthy(Field(file.data, "budgets"))
                      THEN ParsedBudgets(Field(file.data, "budgets")) ELSE << >>,
          settings |-> IF Truthy(Field(file.data, "settings"))
                       THEN ParsedObject(Field(file.data, "settings")) ELSE loc.settings,
          categories |-> loc.categories]

\* the body of importData's onload handler up to its saveData() call.  The
\* text is parsed and validated, the backup entry is written to localStorage,
\* then the collections are taken from the file: transactions || [],
\* budgets || {}, settings and categories || the present ones.  An exception
\* (JSON.parse, 'Invalid data format', the backup's setItem) goes to the catch
\* block before anything is assigned.
ImportedState(loc, file, write) ==
    IF ~file.parses \/ ~ValidateImportedData(file.data) \/ write # "none"
    THEN [accepted |-> FALSE, transactions |-> loc.transactions, budgets |-> loc.budgets,
          settings |-> loc.settings, categories |-> loc.categories]
    ELSE [accepted |-> TRUE,
          transactions |-> ParsedTransactions(Field(file.data, "transactions")),
          budgets |-> IF Truthy(Field(file.data, "budgets"))
                      THEN ParsedBudgets(Field(file.data, "budgets")) ELSE << >>,
          settings |-> IF Truthy(Field(file.data, "settings"))
                       THEN ParsedObject(Field(file.data, "settings")) ELSE loc.settings,
          categories |-> IF Truthy(Field(file.data, "categories"))
                         THEN ParsedObject(Field(file.data, "categories"))
                         ELSE loc.categories]

\* the application as it starts on an empty storage
Fresh(loc) == ~loc.store.present /\ Collections(loc) = DefaultData

\* importData(event), the file read: the onload handler.  importData asks the
\* user nothing: no confirm() is called between the choice of the file and
\* the assignments.
ImportData(file) ==
    /\ UserMay
    /\ LET r == ImportedState(Local, file, faults.write) IN
          /\ transactions' = r.transactions
          /\ budgets' = r.budgets
          /\ settings' = r.settings
          /\ categories' = r.categories
          /\ IF r.accepted
             THEN SaveData(r.transactions, r.budgets, r.settings, r.categories)
             ELSE /\ saveStatus' = "none"
                  /\ UNCHANGED <<store, session, faults, cycles, syncInProgress, lastCycle>>
          /\ imp' = [called |-> TRUE, file |-> file, before |-> Local,
                     session |-> session, write |-> faults.write,
                     fresh |-> Fresh(Local), accepted |-> r.accepted,
                     confirmAsked |-> FALSE]
    /\ ops' = ops + 1
    /\ mrg' = NoMerge
    /\ pend' = Pending
    /\ UNCHANGED <<clock, phase, clientApi, cloudSyncEnabled, lastCloudSync,
                   isOnline, remote, force, exported, clientCall, second>>

(* ------------------- the application and its storage ------------------- *)
\* localStorage, or sessionStorage as well, starts or stops refusing writes
\* (quota exceeded, storage disabled)
StorageFault(write) ==
    /\ ~MicrotaskPending
    /\ write # faults.write
    /\ faults' = [faults EXCEPT !.write = write]
    /\ UNCHANGED <<localVars, clock, ops, phase, clientApi, cloudSyncEnabled,
                   clientVars, taskVars, mrg, pend, session, saveStatus, exported, imp, clientCall, second>>

\* a stored entry becomes unreadable: its text no longer parses
EntryCorrupted(entry) ==
    /\ ~MicrotaskPending
    /\ store.present
    /\ faults.read = "none"
    /\ faults' = [faults EXCEPT !.read = entry]
    /\ UNCHANGED <<localVars, clock, ops, phase, clientApi, cloudSyncEnabled,
                   clientVars, taskVars, mrg, pend, session, saveStatus, exported, imp, clientCall, second>>

\* the application is opened on an emptied storage to take a backup back in:
\* the constructor's loadData() finds no entry, cloud sync stays off
FreshStart ==
    /\ phase = "ready"
    /\ ~cloudSyncEnabled
    /\ exported.made
    /\ ~Fresh(Local) \/ session.present
    /\ transactions' = << >>
    /\ budgets' = << >>
    /\ settings' = DefaultSettings
    /\ categories' = DefaultCategories
    /\ store' = EmptyStore
    /\ session' = EmptyStore
    /\ faults' = [faults EXCEPT !.read = "none"]
    /\ saveStatus' = "none"
    /\ imp' = NoImport
    /\ mrg' = NoMerge
    /\ pend' = NoPending
    /\ UNCHANGED <<clock, ops, phase, clientApi, cloudSyncEnabled, clientVars,
                   taskVars, exported, clientCall, second>>

\* files the user can choose besides the application's own export
JsonTransaction == [id |-> 1, amount |-> JsonNumber(MaxAmount), date |-> MaxDate,
                    timestamp |-> 0]

ImportFiles ==
    <<[parses |-> FALSE],
      [parses |-> TRUE, data |-> JsonNull],
      [parses |-> TRUE, data |-> JsonNumber(1)],
      [parses |-> TRUE, data |-> ArrayValue(<< >>)],
      [parses |-> TRUE, data |-> ObjectValue([budgets |-> ObjectValue(<< >>)])],
      [parses |-> TRUE, data |-> ObjectValue([transactions |-> ObjectValue(<< >>)])],
      [parses |-> TRUE, data |-> ObjectValue([transactions |-> ArrayValue(<< >>),
                                              budgets |-> JsonString(1)])],
      [parses |-> TRUE, data |-> ObjectValue([transactions |-> ArrayValue(<< >>),
                                              categories |-> JsonNumber(1)])],
      [parses |-> TRUE, data |-> ObjectValue([transactions |-> ArrayValue(<< >>),
                                              settings |-> ArrayValue(<< >>)])],
      [parses |-> TRUE, data |-> ObjectValue([transactions |-> ArrayValue(<<JsonTransaction>>)])]>>

StorageEntries == {"transactions", "budgets", "settings", "categories"}

\* the application without cloud sync on a storage that can fail
NextLocal ==
    \/ UserOperation
    \/ ForceSync
    \/ \E w \in {"none", "local", "both"} : StorageFault(w)
    \/ \E e \in StorageEntries : EntryCorrupted(e)

SpecLocal == InitMerge /\ [][NextLocal]_vars

\* the application without cloud sync, with export, import and restart
NextBackup ==
    \/ UserOperation
    \/ ExportData
    \/ \E i \in DOMAIN ImportFiles : ImportData(ImportFiles[i])
    \/ exported.made /\ ImportData(exported.file)
    \/ \E w \in {"none", "local", "both"} : StorageFault(w)
    \/ FreshStart

SpecBackup == InitMerge /\ [][NextBackup]_vars

(* --------------------------- the entry forms --------------------------- *)
\* what parseFloat gives for the amount field of a form: a negative number,
\* zero (also standing for an empty field), or a positive number
EnteredAmounts == {0 - a : a \in Amounts} \cup {0} \cup Amounts

\* the application without cloud sync, the forms filled in with any amount
NextEntry ==
    \/ \E a \in EnteredAmounts, d \in Dates, now \in Ids : AddTransaction(a, d, now)
    \/ \E c \in BudgetCategories, a \in EnteredAmounts : AddBudget(c, a)
    \/ \E id \in Ids : DeleteTransaction(id)
    \/ \E c \in BudgetCategories : RemoveBudget(c)

SpecEntry == InitMerge /\ [][NextEntry]_vars

(* ------------------------- properties of the merge --------------------- *)
\* the records of list l that carry key k
WithKey(l, k) == {l[i] : i \in {j \in DOMAIN l : l[j].id = k}}

\* keys that one record of the list carries
SingleKeys(l) == {k \in Keys(l, "id") : Cardinality({i \in DOMAIN l : l[i].id = k}) = 1}

\* the record of list l with key k, for k in SingleKeys(l)
TheRecord(l, k) == CHOOSE r \in WithKey(l, k) : TRUE

\* C1: after mergeCloudData, the local transactions carry every id of the
\* local and of the cloud list, and the local budgets every category of the
\* local and of the cloud budgets
C1_MergeKeepsEveryKey ==
    mrg.called =>
        /\ mrg.cloud.hasTransactions =>
              Keys(mrg.before.transactions, "id") \cup Keys(mrg.cloud.transactions, "id")
                  \subseteq Keys(transactions, "id")
        /\ mrg.cloud.hasBudgets =>
              (DOMAIN mrg.before.budgets) \cup (DOMAIN mrg.cloud.budgets)
                  \subseteq DOMAIN budgets

\* the later of two records with different times
Later(a, b) == IF ItemTime(a) > ItemTime(b) THEN a ELSE b

\* C2: for a key that one local and one cloud record carry with different
\* timestamps (the timestamp field, else the date), the merge gives the later
\* record, whichever list is passed as local; a key only the cloud list has
\* comes out with the cloud record unchanged
C2_LaterRecordWins ==
    mrg.called /\ mrg.cloud.hasTransactions =>
        LET l == mrg.before.transactions
            c == mrg.cloud.transactions
            swapped == MergeArrayData(ArrayValue(c), ArrayValue(l), "id").value
        IN /\ \A k \in SingleKeys(l) \cap SingleKeys(c) :
                 ItemTime(TheRecord(l, k)) # ItemTime(TheRecord(c, k)) =>
                    /\ WithKey(transactions, k) = {Later(TheRecord(l, k), TheRecord(c, k))}
                    /\ WithKey(swapped, k) = {Later(TheRecord(l, k), TheRecord(c, k))}
           /\ \A k \in Keys(c, "id") \ Keys(l, "id") :
                 WithKey(transactions, k) = WithKey(c, k)

\* a merge in which the cloud record of a shared key was the later one, and
\* the cloud list had a key of its own
C2_Witness ==
    /\ mrg.called
    /\ mrg.cloud.hasTransactions
    /\ \E k \in SingleKeys(mrg.before.transactions) \cap SingleKeys(mrg.cloud.transactions) :
          /\ ItemTime(TheRecord(mrg.cloud.transactions, k))
                > ItemTime(TheRecord(mrg.before.transactions, k))
          /\ TheRecord(mrg.cloud.transactions, k) \in Range(transactions)
    /\ Keys(mrg.cloud.transactions, "id") \ Keys(mrg.before.transactions, "id") # {}

\* C9: after a mergeCloudData that completes on cloud data with settings, the
\* local settings, in memory and under budgetApp_settings, have the cloud's
\* value for every field the cloud settings carry, except deviceId and
\* lastLocalSync, which are as they were locally
C9_CloudSettingsTakePrecedence ==
    mrg.called /\ ~mrg.threw /\ mrg.cloud.hasSettings =>
        /\ \A f \in (DOMAIN mrg.cloud.settings) \ DeviceLocalFields :
              /\ f \in DOMAIN settings
              /\ settings[f] = mrg.cloud.settings[f]
              /\ f \in DOMAIN store.settings
              /\ store.settings[f] = mrg.cloud.settings[f]
        /\ \A f \in DeviceLocalFields :
              /\ (f \in DOMAIN settings) = (f \in DOMAIN mrg.before.settings)
              /\ f \in DOMAIN settings => settings[f] = mrg.before.settings[f]
              /\ (f \in DOMAIN store.settings)
                    = (f \in DOMAIN GetAppSettings(mrg.before.store))
              /\ f \in DOMAIN store.settings =>
                    store.settings[f] = GetAppSettings(mrg.before.store)[f]

\* C10: after mergeCloudData on cloud data with categories, the local names of
\* each type are the local names before it together with the cloud's
C10_CategoriesAreTheUnion ==
    mrg.called /\ mrg.cloud.hasCategories =>
        \A t \in CategoryTypes :
            categories[t] = mrg.before.categories[t] \cup mrg.cloud.categories[t]

FailedDownloadStep ==
    \/ /\ ops' = ops
       /\ \E c \in 1..MaxCycles :
             /\ cycles'[c] # cycles[c]
             /\ cycles[c].dlFailed \/ cycles'[c].dlFailed
    \/ /\ force' # force
       /\ force'.dlFailed

\* every transaction id, budget category and category name of the local
\* state, in memory and in localStorage, is still there after the step
KeysKept ==
    /\ Keys(transactions, "id") \subseteq Keys(transactions', "id")
    /\ Keys(store.transactions, "id") \subseteq Keys(store'.transactions, "id")
    /\ DOMAIN budgets \subseteq DOMAIN budgets'
    /\ DOMAIN store.budgets \subseteq DOMAIN store'.budgets
    /\ \A t \in CategoryTypes :
          /\ categories[t] \subseteq categories'[t]
          /\ store.categories[t] \subseteq store'.categories[t]

\* C5: no step of a sync whose download failed removes a transaction id, a
\* budget category or a category name from the local state
C5_FailedDownloadRemovesNothing == [][FailedDownloadStep => KeysKept]_vars

\* a cycle whose download failed has gone through its upload and returned
\* while the local state held a transaction and a budget
C5_Witness ==
    /\ lastCycle.seen
    /\ lastCycle.dlFailed
    /\ lastCycle.uploaded
    /\ transactions # << >>
    /\ DOMAIN budgets # {}
    /\ store.transactions # << >>

CycleReturns ==
    \E c \in 1..MaxCycles : cycles[c].pc # "idle" /\ cycles'[c].pc = "idle"

\* the remote tables hold the local transactions and budgets, key by key
RemoteHoldsLocal ==
    /\ DOMAIN remote.transactions = Keys(transactions, "id")
    /\ \A i \in DOMAIN transactions :
          /\ remote.transactions[transactions[i].id].amount = ParseFloat(transactions[i].amount)
          /\ remote.transactions[transactions[i].id].date = transactions[i].date
    /\ DOMAIN remote.budgets = DOMAIN budgets
    /\ \A c \in DOMAIN budgets :
          /\ remote.budgets[c].amount = Num(budgets[c].v)
          /\ remote.budgets[c].period = budgets[c].period

C12_MergeWithItselfIsIdentity ==
    /\ SingleKeys(transactions) = Keys(transactions, "id") =>
          MergeArrayData(ArrayValue(transactions), ArrayValue(transactions), "id")
             = [threw |-> FALSE, value |-> transactions]
    /\ /\ mrg.called
       /\ mrg.cloud.hasTransactions
       /\ mrg.cloud.transactions = mrg.before.transactions
       => transactions = mrg.before.transactions

\* mergeCloudData was called with the very list of two transactions the
\* application held
C12_Witness ==
    /\ mrg.called
    /\ mrg.cloud.hasTransactions
    /\ mrg.cloud.transactions = mrg.before.transactions
    /\ Len(transactions) >= 2

\* a record without timestamp and without date
Undated(r) == r.timestamp = 0 /\ r.date = 0

\* C13: for a key that one local and one cloud record carry, neither with a
\* timestamp or a date, the merge keeps the local record
C13_UndatedConflictKeepsLocal ==
    mrg.called /\ mrg.cloud.hasTransactions =>
        \A k \in SingleKeys(mrg.before.transactions) \cap SingleKeys(mrg.cloud.transactions) :
            /\ Undated(TheRecord(mrg.before.transactions, k))
            /\ Undated(TheRecord(mrg.cloud.transactions, k))
            => WithKey(transactions, k) = {TheRecord(mrg.before.transactions, k)}

\* a merge met an undated cloud record and a different undated local record
\* with the same id
C13_Witness ==
    /\ mrg.called
    /\ mrg.cloud.hasTransactions
    /\ \E k \in SingleKeys(mrg.before.transactions) \cap SingleKeys(mrg.cloud.transactions) :
          /\ Undated(TheRecord(mrg.before.transactions, k))
          /\ Undated(TheRecord(mrg.cloud.transactions, k))
          /\ TheRecord(mrg.before.transactions, k) # TheRecord(mrg.cloud.transactions, k)

\* C19: once something has been saved and no operation is in progress, each
\* persisted entity equals the in-memory collection
C19_PersistedEqualsMemory ==
    store.present /\ ~Syncing =>
        /\ store.transactions = transactions
        /\ store.budgets = budgets
        /\ store.settings = settings
        /\ store.categories = categories

\* C20: no two transactions in memory carry the same id (the categories of
\* budgets are the keys of one object and cannot repeat)
C20_TransactionIdsDistinct ==
    \A i, j \in DOMAIN transactions : transactions[i].id = transactions[j].id => i = j

(* --------------- properties of storage, export and import --------------- *)
\* the user's operation of this step called loadData (forceSync without cloud
\* sync) / called saveData
LoadDataRan ==
    ops' = ops + 1 /\ ~cloudSyncEnabled /\ saveStatus' = "none" /\ ~imp'.called
                   /\ mrg' = NoMerge
SaveDataRan == ops' = ops + 1 /\ saveStatus' # "none"

\* what loadData may leave in collection e: the value stored in localStorage
\* or the default when every entry can be read; else the default, a value
\* stored in sessionStorage, or the value of a localStorage entry that can
\* still be read
Loadable(e) ==
    IF faults.read = "none"
    THEN {IF store.present THEN store[e] ELSE DefaultData[e]}
    ELSE {DefaultData[e]}
         \cup (IF session.present THEN {session[e]} ELSE {})
         \cup (IF faults.read # e THEN {store[e]} ELSE {})

\* C14: loadData returns, and leaves in each of the four collections the
\* stored value or the default, never the value the collection held before
\* the call when that is neither
C14_LoadDataStoredOrDefault ==
    [][LoadDataRan => \A e \in StorageEntries : Collections(Local)'[e] \in Loadable(e)]_vars

\* C15: saveData returns to the operation that called it; when localStorage
\* refuses the write the four collections are in sessionStorage afterwards,
\* and when sessionStorage refuses as well neither storage has changed
C15_SaveDataFallsBack ==
    [][SaveDataRan =>
          /\ faults.write = "local" =>
                /\ saveStatus' = "Data saved (fallback)"
                /\ session' = SavedStore(transactions', budgets', settings', categories')
                /\ store' = store
          /\ faults.write = "both" =>
                /\ saveStatus' = "Save failed"
                /\ session' = session
                /\ store' = store]_vars

\* an operation went through while both storages refused, after one that had
\* been saved to sessionStorage: the collections in memory are the new ones
C15_Witness ==
    /\ saveStatus = "Save failed"
    /\ faults.write = "both"
    /\ session.present
    /\ transactions # << >>
    /\ session.transactions # transactions

\* a backup file that is not JSON, not an object, whose transactions are not
\* an array, or whose budgets, settings or categories are given and not objects
Malformed(file) ==
    \/ ~file.parses
    \/ file.data.kind # "object"
    \/ ~IsArray(Field(file.data, "transactions"))
    \/ \E e \in {"budgets", "settings", "categories"} :
          Field(file.data, e).kind \notin {"undefined", "null", "object"}

\* C16: after the import of a malformed file the collections in memory and
\* the stored entries are what they were before it
C16_MalformedImportChangesNothing ==
    imp.called /\ Malformed(imp.file) =>
        /\ ~imp.accepted
        /\ Collections(Local) = Collections(imp.before)
        /\ store = imp.before.store
        /\ session = imp.session

\* C17: when the file the application exported is imported into a freshly
\* started application on a working storage, the four collections are those
\* of the time of the export
C17_ExportImportRoundTrip ==
    /\ imp.called
    /\ exported.made
    /\ imp.file = exported.file
    /\ imp.fresh
    /\ imp.write = "none"
    => /\ imp.accepted
       /\ Collections(Local) = exported.state

\* a state with a transaction and a category of the user's was exported and
\* imported into a freshly started application
C17_Witness ==
    /\ imp.called
    /\ exported.made
    /\ imp.file = exported.file
    /\ imp.fresh
    /\ imp.write = "none"
    /\ exported.state.transactions # << >>
    /\ exported.state.categories # DefaultCategories

\* C18: an import that replaced the collections had asked the user to confirm
C18_ImportOnlyAfterConfirmation ==
    imp.called /\ imp.accepted => imp.confirmAsked

(* ------------------ properties of the sync, continued ------------------- *)
\* C27: when mergeCloudData throws, the collections in memory and the stored
\* entries are what they were before the call
C27_MergeAllOrNothing ==
    mrg.called /\ mrg.threw =>
        /\ Collections(Local) = Collections(mrg.before)
        /\ store = mrg.before.store

\* a download or upload request of the client is on its way
ClientCallRunning ==
    \/ \E c \in 1..MaxCycles : cycles[c].pc \in {"download", "upload"}
    \/ force.pc = "download"

\* C29: the client's flag is set only while a call that passed the guard is
\* running
C29_FlagReleased == syncInProgress => ClientCallRunning

\* an upload has returned, a later call was refused by the guard, and the flag
\* is free
C29_Witness ==
    /\ lastCycle.seen
    /\ lastCycle.uploaded
    /\ ~syncInProgress
    /\ ~ClientCallRunning

\* a download was answered with data in this step: mergeCloudData ran
MergeRan ==
    \/ \E c \in 1..MaxCycles :
          cycles[c].pc = "download" /\ cycles'[c].pc # "download" /\ ~cycles'[c].dlFailed
    \/ force.pc = "download" /\ force'.pc # "download" /\ ~force'.dlFailed

\* C28: no step removes a row of the remote transactions, and after every
\* merge of downloaded data the local transactions carry every id the remote
\* table holds, ids the user deleted included
C28_RemoteOnlyGrows ==
    [][/\ DOMAIN remote.transactions \subseteq DOMAIN remote'.transactions
       /\ MergeRan => DOMAIN remote.transactions \subseteq Keys(transactions', "id")]_vars

\* a transaction the user deleted (the saved list is empty) is still in the
\* remote table and back in memory, as the download gave it
C28_Witness ==
    /\ store.present
    /\ store.transactions = << >>
    /\ \E i \in DOMAIN transactions :
          /\ transactions[i].id \in DOMAIN remote.transactions
          /\ transactions[i].amount.t = "str"

RoundTrip(data, cloudData) ==
    /\ \A i \in DOMAIN data.transactions :
          \E j \in DOMAIN cloudData.transactions :
             /\ cloudData.transactions[j] = data.transactions[i]
             /\ cloudData.transactions[j].amount.t = "num"
    /\ \A category \in DOMAIN data.budgets :
          /\ category \in DOMAIN cloudData.budgets
          /\ cloudData.budgets[category] = data.budgets[category]

Outcome(call) == IF call.returned \in {"data", "true"} THEN "success" ELSE "error"

RequestFailed ==
    /\ clientCall.operation # "none"
    /\ clientCall.records # << >>
    /\ clientCall.records[1].status = "error"

\* transaction id is in memory as the user added it
AddedLocally(id) ==
    \E i \in DOMAIN transactions :
        transactions[i].id = id /\ transactions[i].amount.t = "num"

====
